---- MODULE Spec2Model ----
(***************************************************************************)
(* Model of airflux's Publisher (src/src/Publisher.js): one named event,   *)
(* its listeners, the preEmit/shouldEmit hooks, the synchronous fan-out of *)
(* triggerSync, and the resolution of the promises listeners return into   *)
(* the "completed" / "failed" child publishers.                            *)
(*                                                                         *)
(* JavaScript is single threaded.  A running triggerSync is a frame on     *)
(* `stack`; a listener's callback is arbitrary user code, so while a frame *)
(* is inside a callback the callback may call listen, unsubscribe,         *)
(* trigger and (re-entrantly) triggerSync before it returns.  Promise      *)
(* reactions are jobs of the microtask queue `jobs` and run only when the  *)
(* stack is empty.                                                         *)
(***************************************************************************)
EXTENDS Naturals, Sequences, FiniteSets

\* ------------------------------------------------------------------ bounds
\* What user code does in one run: its calls of listen, listenOnce,
\* unsubscribe, trigger and triggerSync, plus the promises its listeners
\* return.
MaxOps == 6
\* Cycles started or queued in one run of SpecHooks, where every cycle
\* draws its arguments and its hooks' answers from the sets below.
MaxHookCycles == 2
\* Listeners registered in one run of SpecHooks.
MaxHookListeners == 2

\* ------------------------------------------------------------------ inputs
\* The value or error a promise settles with is named after the promise:
\* the values of different promises are different.
ValueOf(p) == p
NoValue == 0
\* Argument lists handed to trigger / triggerSync.
ArgLists == {<<>>, <<"a">>}
\* What the overridable preEmit hook returns: undefined, an arguments
\* object, an array, or any other defined value (null is falsy but defined).
PreResults ==
    { [kind |-> "undefined", seq |-> <<>>,         value |-> ""],
      [kind |-> "arguments", seq |-> <<"p", "q">>, value |-> ""],
      [kind |-> "array",     seq |-> <<"r">>,      value |-> ""],
      [kind |-> "value",     seq |-> <<>>,         value |-> "null"] }
\* The arguments object of a listenOnce(callback, bindContext) call: the
\* callback itself and, when given, the context.
OnceArgLists == {<<"callback">>, <<"callback", "ctx">>}
NoArgs == <<>>

VARIABLES
    handlers,           \* emitter: the registered eventHandlers, in order
    subs,               \* one entry per listen call: aborted flag, wrapper kind
    dispatchPromises,   \* this._dispatchPromises
    cycles,             \* one entry per triggerSync call
    stack,              \* running triggerSync calls, innermost last
    promises,           \* promises returned by listeners
    jobs,               \* microtask queue of promise reactions
    childLog,           \* calls of completed.asFunction / failed.asFunction
    calls,              \* callback invocations
    warnings,           \* console.warn calls
    ticks,              \* functions queued by _.nextTick
    ops,                \* calls of the publisher's methods made so far
    triggered,          \* the argument lists of the calls of trigger, in call order
    unsubscribedAt      \* per listener: 0, or 1 + the number of cycles begun
                        \* when its unsubscribe function was first called

vars == <<handlers, subs, dispatchPromises, cycles, stack, promises, jobs,
          childLog, calls, warnings, ticks, ops, triggered, unsubscribedAt>>

\* ----------------------------------------------------------------- helpers
Last(s) == s[Len(s)]
Front(s) == SubSeq(s, 1, Len(s) - 1)
Top == stack[Len(stack)]
SetTop(f) == [stack EXCEPT ![Len(stack)] = f]

\* User code may still call a method or return a promise.
Budget == ops + Len(promises) < MaxOps

\* User code runs at top level or inside a listener's callback.
InUserCode == IF stack = <<>> THEN TRUE ELSE Top.inCallback
CurrentCycle == IF stack = <<>> THEN 0 ELSE Top.cycle

RECURSIVE Without(_, _)
Without(s, x) ==
    IF s = <<>> THEN <<>>
    ELSE IF s[1] = x THEN Tail(s)
    ELSE <<s[1]>> \o Without(Tail(s), x)

\* emitter.addListener / emitter.removeListener of the event bus.
AddListener(hs, l) == Append(hs, l)
RemoveListener(hs, l) == Without(hs, l)

\* ------------------------------------------------------------------- Init
Init ==
    /\ handlers = <<>>
    /\ subs = <<>>
    /\ dispatchPromises = <<>>
    /\ cycles = <<>>
    /\ stack = <<>>
    /\ promises = <<>>
    /\ jobs = <<>>
    /\ childLog = <<>>
    /\ calls = <<>>
    /\ warnings = 0
    /\ ticks = <<>>
    /\ ops = 0
    /\ triggered = <<>>
    /\ unsubscribedAt = <<>>

\* ----------------------------------------------------- listen / listenOnce
\* listen(callback): a new subscription with aborted = false whose
\* eventHandler is added to the emitter.
Subscribe(once, onceArgs) ==
    /\ Budget
    /\ ops' = ops + 1
    /\ subs' = Append(subs, [aborted |-> FALSE, once |-> once, onceArgs |-> onceArgs])
    /\ handlers' = AddListener(handlers, Len(subs) + 1)
    /\ unsubscribedAt' = Append(unsubscribedAt, 0)

Listen ==
    /\ InUserCode
    /\ Subscribe(FALSE, NoArgs)
    /\ UNCHANGED <<dispatchPromises, cycles, stack, promises,
                   jobs, childLog, calls, warnings, ticks, triggered>>

\* listenOnce(callback, bindContext): listen() with a wrapper; the wrapper
\* is an arrow function, so the `arguments` it reads are listenOnce's own.
ListenOnce(onceArgs) ==
    /\ InUserCode
    /\ Subscribe(TRUE, onceArgs)
    /\ UNCHANGED <<dispatchPromises, cycles, stack, promises,
                   jobs, childLog, calls, warnings, ticks, triggered>>

\* A shared eventHandler variable: every unsubscribe function acts on the
\* listener registered last.
UnsubscribeLatest(ss, hs, l) ==
    [ subs     |-> [ss EXCEPT ![Len(ss)].aborted = TRUE],
      handlers |-> RemoveListener(hs, Len(ss)) ]

\* A removal by position that does not check the handler was found:
\* splice(-1, 1) takes the last handler away.
UnsubscribeSplice(ss, hs, l) ==
    [ subs     |-> [ss EXCEPT ![l].aborted = TRUE],
      handlers |-> IF \E k \in 1..Len(hs) : hs[k] = l
                   THEN RemoveListener(hs, l)
                   ELSE Front(hs) ]

\* The function listen returns (lines 81-84): aborted = true, and the
\* eventHandler is removed from the emitter.
UnsubscribeEffect(ss, hs, l) ==
    [ subs     |-> [ss EXCEPT ![l].aborted = TRUE],
      handlers |-> RemoveListener(hs, l) ]

\* The call of listener l's unsubscribe function is noted, once.
NoteUnsubscribe(l) ==
    IF unsubscribedAt[l] = 0
    THEN [unsubscribedAt EXCEPT ![l] = Len(cycles) + 1]
    ELSE unsubscribedAt

Unsubscribe(l) ==
    /\ InUserCode
    /\ Budget
    /\ ops' = ops + 1
    /\ subs' = UnsubscribeEffect(subs, handlers, l).subs
    /\ handlers' = UnsubscribeEffect(subs, handlers, l).handlers
    /\ unsubscribedAt' = NoteUnsubscribe(l)
    /\ UNCHANGED <<dispatchPromises, cycles, stack, promises,
                   jobs, childLog, calls, warnings, ticks, triggered>>

\* ------------------------------------------------------------ triggerSync
\* A truthiness test in place of typeof preResult !== 'undefined': a falsy
\* result such as null is taken for no result.
ApplyPreEmitTruthy(args, pre) ==
    CASE pre.kind = "undefined" -> args
      [] pre.kind = "arguments" -> pre.seq
      [] pre.kind = "array"     -> <<>> \o pre.seq
      [] OTHER                  -> IF pre.value = "null" THEN args
                                   ELSE <<>> \o <<pre.value>>

\* Lines 123-126: the argument list after the preEmit hook: an arguments
\* object is taken as it is; [].concat(x) copies an array's elements and
\* wraps any other value.
ApplyPreEmit(args, pre) ==
    CASE pre.kind = "undefined" -> args
      [] pre.kind = "arguments" -> pre.seq
      [] pre.kind = "array"     -> <<>> \o pre.seq
      [] OTHER                  -> <<>> \o <<pre.value>>

\* shouldEmit's answer ignored.
EmitsAlways(should) == TRUE

\* Line 128: the fan-out runs only if shouldEmit agrees.
Emits(should) == should

NewCycle(via, orig, pre, args, should, emitting) ==
    [ via      |-> via,
      orig     |-> orig,
      pre      |-> pre,
      args     |-> args,
      should   |-> should,
      depth    |-> Len(stack),
      before   |-> dispatchPromises,
      snapshot |-> IF emitting THEN handlers ELSE <<>>,
      returned |-> ~emitting,
      produced |-> 0,
      recs     |-> <<>>,
      got      |-> <<>>,
      joined   |-> "none",
      err      |-> NoValue ]

\* triggerSync up to the call of emitter.emit: preEmit, shouldEmit, the
\* reset of _dispatchPromises, and emit's copy of the handler list.
TriggerSyncCall(via, args, pre, should) ==
    LET a == ApplyPreEmit(args, pre)
        c == Len(cycles) + 1
    IN  IF Emits(should)
        THEN /\ cycles' = Append(cycles, NewCycle(via, args, pre, a, should, TRUE))
             /\ dispatchPromises' = <<>>
             /\ stack' = Append(stack, [cycle |-> c, idx |-> 1, inCallback |-> FALSE])
        ELSE /\ cycles' = Append(cycles, NewCycle(via, args, pre, a, should, FALSE))
             /\ UNCHANGED <<dispatchPromises, stack>>

TriggerSync(args, pre, should) ==
    /\ InUserCode
    /\ Budget
    /\ ops' = ops + 1
    /\ TriggerSyncCall("triggerSync", args, pre, should)
    /\ UNCHANGED <<handlers, subs, promises, jobs, childLog,
                   calls, warnings, ticks, triggered,
                   unsubscribedAt>>

\* A closure that calls triggerSync with no arguments.
TickArgsDropped(args) == <<>>

\* Line 140: the arguments the queued function will hand to triggerSync.
TickArgs(args) == args

\* trigger(): _.nextTick(() => this.triggerSync.apply(this, args)).
Trigger(args) ==
    /\ InUserCode
    /\ Budget
    /\ ops' = ops + 1
    /\ ticks' = Append(ticks, TickArgs(args))
    /\ triggered' = Append(triggered, args)
    /\ UNCHANGED <<handlers, subs, dispatchPromises, cycles,
                   stack, promises, jobs, childLog, calls, warnings,
                   unsubscribedAt>>

\* A later turn runs the oldest function queued by _.nextTick.
RunTick(pre, should) ==
    /\ stack = <<>>
    /\ ticks # <<>>
    /\ TriggerSyncCall("trigger", Head(ticks), pre, should)
    /\ ticks' = Tail(ticks)
    /\ UNCHANGED <<handlers, subs, promises, jobs, childLog,
                   calls, warnings, ops, triggered,
                   unsubscribedAt>>

\* ----------------------------------------------------------- eventHandler
\* No aborted check: removal from the emitter alone.
HandlerRunsAlways(sub) == TRUE

\* The aborted test the wrong way round.
HandlerRunsInverted(sub) == sub.aborted

\* Line 58: the eventHandler returns at once when its listener was aborted.
HandlerRuns(sub) == ~sub.aborted

\* The argument list the user's callback receives: the emitted one for
\* listen (line 60); for listenOnce the wrapper passes on `arguments`
\* (line 91), which in an arrow function is listenOnce's arguments object.
CallbackArgs(sub, emitted) ==
    IF sub.once THEN sub.onceArgs ELSE emitted

\* A wrapper that never unsubscribes.
WrapperNoUnsubscribe(ss, hs, l) == [subs |-> ss, handlers |-> hs]

\* Line 92: what the listenOnce wrapper does before it calls the callback.
WrapperBeforeCall(ss, hs, l) == UnsubscribeEffect(ss, hs, l)

\* The handlers emit is going through, and the one it has reached.
TopSnapshot == cycles[Top.cycle].snapshot
TopListener == TopSnapshot[Top.idx]

\* emit reaches the next handler of its copy: the eventHandler checks
\* aborted, and calls the callback; a listenOnce wrapper first unsubscribes.
InvokeNext ==
    /\ stack # <<>>
    /\ ~Top.inCallback
    /\ Top.idx <= Len(TopSnapshot)
    /\ LET l == TopListener
           c == Top.cycle
       IN  IF HandlerRuns(subs[l])
           THEN /\ calls' = Append(calls, [cycle |-> c, listener |-> l,
                                 args |-> CallbackArgs(subs[l], cycles[c].args)])
                /\ stack' = SetTop([Top EXCEPT !.inCallback = TRUE])
                /\ IF subs[l].once
                   THEN /\ subs' = WrapperBeforeCall(subs, handlers, l).subs
                        /\ handlers' = WrapperBeforeCall(subs, handlers, l).handlers
                        /\ unsubscribedAt' = NoteUnsubscribe(l)
                   ELSE UNCHANGED <<subs, handlers, unsubscribedAt>>
           ELSE /\ stack' = SetTop([Top EXCEPT !.idx = @ + 1])
                /\ UNCHANGED <<calls, subs, handlers, unsubscribedAt>>
    /\ UNCHANGED <<dispatchPromises, cycles, promises, jobs,
                   childLog, warnings, ticks, triggered, ops>>

\* No capability check: every returned promise is tracked.
PromiseFateAlwaysTrack(can) == "track"

\* Lines 62-77: what the eventHandler does with a promise the callback
\* returned: "track" it in _dispatchPromises or "warn" and drop it.
PromiseFate(can) == IF can THEN "track" ELSE "warn"

\* The callback returns a value that is no promise.
ReturnPlain ==
    /\ stack # <<>>
    /\ Top.inCallback
    /\ stack' = SetTop([Top EXCEPT !.inCallback = FALSE, !.idx = @ + 1])
    /\ UNCHANGED <<handlers, subs, dispatchPromises, cycles,
                   promises, jobs, childLog, calls, warnings, ticks, triggered, ops,
                   unsubscribedAt>>

\* The promises that have settled; a promise's `at` is its place in the
\* order of settling, one that is returned settled taking its place then.
SettledSoFar == Cardinality({q \in 1..Len(promises) : promises[q].state # "pending"})

\* The listeners that have been unsubscribed; a promise's `gone` is what
\* this set was when the promise settled.
AbortedNow == {l \in 1..Len(subs) : subs[l].aborted}

\* The callback returns a promise, pending or already settled, and
\* this.canHandlePromise() answers can.
ReturnPromise(state, can) ==
    /\ stack # <<>>
    /\ Top.inCallback
    /\ Budget
    /\ LET l == TopListener
           c == Top.cycle
           p == Len(promises) + 1
       IN  /\ promises' = Append(promises, [state |-> state,
                                  val |-> IF state = "pending" THEN NoValue ELSE ValueOf(p),
                                  cycle |-> c, listener |-> l, can |-> can,
                                  born |-> state,
                                  at |-> IF state = "pending" THEN 0
                                         ELSE SettledSoFar + 1,
                                  gone |-> IF state = "pending" THEN {}
                                           ELSE AbortedNow])
           /\ IF PromiseFate(can) = "track"
              THEN /\ dispatchPromises' =
                         Append(dispatchPromises, [promise |-> p, listener |-> l])
                   /\ cycles' = [cycles EXCEPT ![c].produced = @ + 1]
                   /\ UNCHANGED warnings
              ELSE /\ warnings' = warnings + 1
                   /\ UNCHANGED <<dispatchPromises, cycles>>
    /\ stack' = SetTop([Top EXCEPT !.inCallback = FALSE, !.idx = @ + 1])
    /\ UNCHANGED <<handlers, subs, jobs, childLog, calls, ticks, triggered, ops,
                   unsubscribedAt>>

\* ------------------------------------------- resolve / _handleDispatchPromises
Settled(p) == promises[p].state # "pending"

\* What a child publisher is called with: a settled value or error as it
\* is, or Promise.all's array of {listener, value} objects.
Plain(v) == [wrapped |-> FALSE, value |-> v, entries |-> <<>>]
Wrapped(es) == [wrapped |-> TRUE, value |-> NoValue, entries |-> es]

\* Both reactions wired to the completed child.
ResolveChildAlwaysCompleted(state) == "completed"

\* Line 156: promise.then(completed.asFunction, failed.asFunction).
ResolveChild(state) == IF state = "fulfilled" THEN "completed" ELSE "failed"

\* No joining: resolve is called on every promise of the list.
ReactionKindEach(n) == IF n = 0 THEN "none" ELSE "then"

\* No early return for an empty list: Promise.all([]) is resolved.
ReactionKindNoEmptyCheck(n) == IF n = 1 THEN "then" ELSE "mapped"

\* No special case for a single promise: it is mapped and joined too.
ReactionKindNoSingle(n) == IF n = 0 THEN "none" ELSE "mapped"

\* Lines 166-183: which reactions _handleDispatchPromises attaches to the
\* n promises it took: none, resolve's on the only promise, or the mapping
\* reaction on each promise (joined by Promise.all).
ReactionKind(n) == IF n = 0 THEN "none" ELSE IF n = 1 THEN "then" ELSE "mapped"

\* The reactions attached to promises that are already settled are queued
\* at once, in the order they were attached.
RECURSIVE ReadyJobs(_, _, _)
ReadyJobs(c, recs, i) ==
    IF i > Len(recs) THEN <<>>
    ELSE (IF Settled(recs[i].promise)
          THEN <<[kind |-> ReactionKind(Len(recs)), cycle |-> c, i |-> i]>>
          ELSE <<>>) \o ReadyJobs(c, recs, i + 1)

\* The list is read and left as it is.
ListAfterTakeKept(list) == list

\* Line 164: _handleDispatchPromises leaves a new empty list in the field.
ListAfterTake(list) == <<>>

\* emit has returned: _handleDispatchPromises takes the list, resets it,
\* attaches the reactions, and triggerSync returns.
FinishCycle ==
    /\ stack # <<>>
    /\ ~Top.inCallback
    /\ Top.idx > Len(TopSnapshot)
    /\ LET c == Top.cycle
           recs == dispatchPromises
           kind == ReactionKind(Len(recs))
       IN  /\ dispatchPromises' = ListAfterTake(recs)
           /\ cycles' = [cycles EXCEPT
                  ![c].returned = TRUE,
                  ![c].recs = IF kind = "none" THEN <<>> ELSE recs,
                  ![c].got = IF kind = "mapped" THEN [i \in 1..Len(recs) |-> NoValue] ELSE <<>>,
                  ![c].joined = IF kind # "mapped" THEN "none"
                                ELSE IF recs = <<>> THEN "fulfilled" ELSE "pending"]
           /\ jobs' = IF kind = "none" THEN jobs
                      ELSE IF kind = "mapped" /\ recs = <<>>
                      THEN Append(jobs, [kind |-> "joined", cycle |-> c, i |-> 0])
                      ELSE jobs \o ReadyJobs(c, recs, 1)
    /\ stack' = Front(stack)
    /\ UNCHANGED <<handlers, subs, promises, childLog, calls,
                   warnings, ticks, triggered, ops,
                   unsubscribedAt>>

\* Reactions that look the records up in the publisher when they run: a
\* settlement is taken for the first record of the newest cycle that has
\* records.
WatchersLatest(p) ==
    LET with == {d \in 1..Len(cycles) : cycles[d].recs # <<>>}
    IN  IF \E d \in with, i \in 1..Len(promises) :
               i <= Len(cycles[d].recs) /\ cycles[d].recs[i].promise = p
        THEN {[cycle |-> CHOOSE d \in with : \A e \in with : e <= d, i |-> 1]}
        ELSE {}

\* Reactions that give up when the listener of their record has been
\* unsubscribed.
WatchersUnlessAborted(p) ==
    { w \in [cycle : 1..Len(cycles), i : 1..Len(promises)] :
        /\ w.i <= Len(cycles[w.cycle].recs)
        /\ cycles[w.cycle].recs[w.i].promise = p
        /\ ~subs[cycles[w.cycle].recs[w.i].listener].aborted }

\* The reaction, if any, that a cycle attached to promise p.
Watchers(p) ==
    { w \in [cycle : 1..Len(cycles), i : 1..Len(promises)] :
        /\ w.i <= Len(cycles[w.cycle].recs)
        /\ cycles[w.cycle].recs[w.i].promise = p }

RECURSIVE SetToSeq(_)
SetToSeq(S) ==
    IF S = {} THEN <<>>
    ELSE LET x == CHOOSE y \in S : TRUE IN <<x>> \o SetToSeq(S \ {x})

WatcherJobs(p) ==
    LET ws == SetToSeq(Watchers(p))
    IN  [k \in 1..Len(ws) |->
            [kind |-> ReactionKind(Len(cycles[ws[k].cycle].recs)),
             cycle |-> ws[k].cycle, i |-> ws[k].i]]

\* A pending promise settles (outside any fan-out): its reactions are queued.
Settle(p, state) ==
    /\ stack = <<>>
    /\ p \in 1..Len(promises)
    /\ ~Settled(p)
    /\ promises' = [promises EXCEPT ![p].state = state, ![p].val = ValueOf(p),
                                    ![p].at = SettledSoFar + 1,
                                    ![p].gone = AbortedNow]
    /\ jobs' = jobs \o WatcherJobs(p)
    /\ UNCHANGED <<handlers, subs, dispatchPromises, cycles,
                   stack, childLog, calls, warnings, ticks, triggered, ops,
                   unsubscribedAt>>

\* Lines 174-179: the {listener, value} object the mapping makes.
MapResult(rec, v) == [listener |-> rec.listener, value |-> v]

AllGot(got) == \A i \in 1..Len(got) : got[i] # NoValue

\* A loop variable shared by the mapping closures: every entry names the
\* listener of the last record.
EntriesLastListener(recs, got) ==
    [i \in 1..Len(recs) |-> MapResult(recs[Len(recs)], got[i])]

Entries(recs, got) == [i \in 1..Len(recs) |-> MapResult(recs[i], got[i])]

\* A joined promise that a rejection can still overwrite.
JoinSettledOnlyFulfilled(joined) == joined = "fulfilled"

\* Line 182: the promise of Promise.all settles once; later results of the
\* mapped promises do not change it.
JoinSettled(joined) == joined # "pending"

\* The microtask queue runs its oldest job.
RunJob ==
    /\ stack = <<>>
    /\ jobs # <<>>
    /\ LET j == Head(jobs)
           c == j.cycle
           cy == cycles[c]
       IN  CASE j.kind = "then" ->
                 \* resolve's reaction on the only promise of the cycle
                 LET pr == promises[cy.recs[1].promise]
                 IN  /\ childLog' = Append(childLog,
                            [child |-> ResolveChild(pr.state), cycle |-> c,
                             payload |-> Plain(pr.val)])
                     /\ jobs' = Tail(jobs)
                     /\ UNCHANGED cycles
              [] j.kind = "mapped" ->
                 \* the mapping reaction, and Promise.all's on its result
                 LET pr == promises[cy.recs[j.i].promise]
                     got == [cy.got EXCEPT ![j.i] = pr.val]
                 IN  IF JoinSettled(cy.joined)
                     THEN /\ jobs' = Tail(jobs)
                          /\ UNCHANGED <<cycles, childLog>>
                     ELSE IF pr.state = "rejected"
                     THEN /\ cycles' = [cycles EXCEPT ![c].joined = "rejected",
                                                      ![c].err = pr.val]
                          /\ jobs' = Append(Tail(jobs),
                                  [kind |-> "joined", cycle |-> c, i |-> 0])
                          /\ UNCHANGED childLog
                     ELSE /\ cycles' = [cycles EXCEPT
                                 ![c].got = got,
                                 ![c].joined = IF AllGot(got) THEN "fulfilled"
                                               ELSE "pending"]
                          /\ jobs' = IF AllGot(got)
                                     THEN Append(Tail(jobs),
                                        [kind |-> "joined", cycle |-> c, i |-> 0])
                                     ELSE Tail(jobs)
                          /\ UNCHANGED childLog
              [] j.kind = "joined" ->
                 \* resolve's reaction on the promise of Promise.all
                 /\ childLog' = Append(childLog,
                        [child |-> ResolveChild(cy.joined), cycle |-> c,
                         payload |-> IF cy.joined = "fulfilled"
                                     THEN Wrapped(Entries(cy.recs, cy.got))
                                     ELSE Plain(cy.err)])
                 /\ jobs' = Tail(jobs)
                 /\ UNCHANGED cycles
    /\ UNCHANGED <<handlers, subs, dispatchPromises, stack,
                   promises, calls, warnings, ticks, triggered, ops,
                   unsubscribedAt>>

\* ------------------------------------------------------------------- Next
\* The cycles of Spec are all started by triggerSync("a") under the
\* default preEmit; SpecHooks below varies the arguments and the hook.
DefaultPre == [kind |-> "undefined", seq |-> <<>>, value |-> ""]

Next ==
    \/ Listen
    \/ ListenOnce(<<"callback">>)
    \/ \E l \in 1..Len(subs) : Unsubscribe(l)
    \/ \E should \in BOOLEAN : TriggerSync(<<"a">>, DefaultPre, should)
    \/ InvokeNext
    \/ ReturnPlain
    \/ \E st \in {"pending", "fulfilled", "rejected"}, can \in BOOLEAN :
          ReturnPromise(st, can)
    \/ FinishCycle
    \/ \E p \in 1..Len(promises), st \in {"fulfilled", "rejected"} : Settle(p, st)
    \/ RunJob

Spec == Init /\ [][Next]_vars

\* The resolution of promises under the scheduling JavaScript guarantees:
\* a running emit goes on to its next handler, a callback returns,
\* triggerSync finishes, and the microtask queue is run whenever the call
\* stack is empty.  The listeners are registered with listen, shouldEmit
\* agrees and canHandlePromise() is true.
NextResolve ==
    \/ Listen
    \/ \E l \in 1..Len(subs) : Unsubscribe(l)
    \/ TriggerSync(<<"a">>, DefaultPre, TRUE)
    \/ InvokeNext
    \/ ReturnPlain
    \/ \E st \in {"pending", "fulfilled", "rejected"} : ReturnPromise(st, TRUE)
    \/ FinishCycle
    \/ \E p \in 1..Len(promises), st \in {"fulfilled", "rejected"} : Settle(p, st)
    \/ RunJob

SpecResolve ==
    /\ Init /\ [][NextResolve]_vars
    /\ WF_vars(InvokeNext)
    /\ WF_vars(ReturnPlain)
    /\ WF_vars(FinishCycle)
    /\ WF_vars(RunJob)

\* The hooks and the deferred trigger: any argument list, any preEmit
\* result, trigger() and the later turns that run what it queued; the
\* listeners of these runs are registered with listen, stay subscribed and
\* return no promises.
HookBudget == Len(cycles) + Len(ticks) < MaxHookCycles

NextHooks ==
    \/ Len(subs) < MaxHookListeners /\ Listen
    \/ \E a \in ArgLists, pre \in PreResults, should \in BOOLEAN :
          HookBudget /\ TriggerSync(a, pre, should)
    \/ \E a \in ArgLists : HookBudget /\ Trigger(a)
    \/ \E pre \in PreResults, should \in BOOLEAN : RunTick(pre, should)
    \/ InvokeNext
    \/ ReturnPlain
    \/ FinishCycle

SpecHooks == Init /\ [][NextHooks]_vars

\* Deferred and direct cycles together with promises: trigger("a") and the
\* later turns beside the operations of Spec, with listen() listeners only
\* and canHandlePromise() true.
NextDeferred ==
    \/ Listen
    \/ \E l \in 1..Len(subs) : Unsubscribe(l)
    \/ \E should \in BOOLEAN : TriggerSync(<<"a">>, DefaultPre, should)
    \/ HookBudget /\ Trigger(<<"a">>)
    \/ \E should \in BOOLEAN : RunTick(DefaultPre, should)
    \/ InvokeNext
    \/ ReturnPlain
    \/ \E st \in {"pending", "fulfilled", "rejected"} : ReturnPromise(st, TRUE)
    \/ FinishCycle
    \/ \E p \in 1..Len(promises), st \in {"fulfilled", "rejected"} : Settle(p, st)
    \/ RunJob

SpecDeferred == Init /\ [][NextDeferred]_vars

\* ================================================================ properties
CycleIds == 1..Len(cycles)
CallIds == 1..Len(calls)
\* The child-publisher calls, the callback invocations and the queued
\* reactions that belong to cycle c.
LogOf(c) == SelectSeq(childLog, LAMBDA e : e.cycle = c)
InvokedIn(c, l) == \E i \in CallIds : calls[i].cycle = c /\ calls[i].listener = l
JobPending(c) == \E i \in 1..Len(jobs) : jobs[i].cycle = c
InSnapshot(c, l) == \E k \in 1..Len(cycles[c].snapshot) : cycles[c].snapshot[k] = l

\* A step that is a whole triggerSync call whose shouldEmit returned false.
SuppressedStep ==
    /\ Len(cycles') = Len(cycles) + 1
    /\ ~cycles'[Len(cycles')].should

NoTraceOfSuppressed ==
    /\ \A i \in CallIds : cycles[calls[i].cycle].should
    /\ \A i \in 1..Len(childLog) : cycles[childLog[i].cycle].should
    /\ \A i \in 1..Len(jobs) : cycles[jobs[i].cycle].should
    /\ \A i \in 1..Len(promises) : cycles[promises[i].cycle].should

\* C1 as stated: a triggerSync call whose shouldEmit returns false invokes
\* no listener, triggers no child publisher, and leaves the pending
\* DispatchRecord list empty when it returns, wherever it was called from.
C1_Original ==
    [][SuppressedStep =>
          /\ calls' = calls
          /\ childLog' = childLog
          /\ dispatchPromises' = <<>>]_vars

\* C1, amended: a triggerSync call whose shouldEmit returns false invokes no
\* listener, triggers no child publisher and schedules no resolution, now or
\* later, and it leaves the pending DispatchRecord list as it found it:
\* empty when called outside any fan-out, and still holding the enclosing
\* fan-out's records when called from inside a listener.
C1_SuppressedCycle ==
    [][/\ SuppressedStep =>
            /\ calls' = calls
            /\ childLog' = childLog
            /\ jobs' = jobs
            /\ stack' = stack
            /\ promises' = promises
            /\ dispatchPromises' = dispatchPromises
            /\ (stack = <<>> => dispatchPromises' = <<>>)
       /\ NoTraceOfSuppressed']_vars

\* A suppressed cycle was started from inside a listener while the
\* enclosing fan-out had already collected a record.
C1_Witness ==
    \E c \in CycleIds :
        /\ ~cycles[c].should
        /\ cycles[c].depth > 0
        /\ cycles[c].before # <<>>

\* C2: a listener whose unsubscribe function was called before a cycle
\* began is not invoked in that cycle or in any later one.
C2_UnsubscribedBeforeCycle ==
    \A i \in CallIds :
        \/ unsubscribedAt[calls[i].listener] = 0
        \/ calls[i].cycle < unsubscribedAt[calls[i].listener]

\* A listen() listener was invoked in one cycle, then unsubscribed, and a
\* cycle begun after that has fanned out and returned.
C2_Witness ==
    \E l \in 1..Len(subs), c \in CycleIds :
        /\ ~subs[l].once
        /\ unsubscribedAt[l] # 0
        /\ \E i \in CallIds : calls[i].listener = l
        /\ c >= unsubscribedAt[l]
        /\ cycles[c].should
        /\ cycles[c].returned

\* C3: once a listener's unsubscribe function has been called, its
\* callback is not invoked again, not even by a fan-out that is already
\* running and has not reached it yet.
C3_NoCallAfterUnsubscribe ==
    [][Len(calls') > Len(calls) =>
          unsubscribedAt[calls'[Len(calls')].listener] = 0]_vars

\* A fan-out has passed over a listener of its handler list without
\* invoking it: the listener was unsubscribed while the fan-out ran.
C3_Witness ==
    \E c \in CycleIds, l \in 1..Len(subs) :
        /\ cycles[c].should
        /\ cycles[c].returned
        /\ InSnapshot(c, l)
        /\ ~InvokedIn(c, l)
        /\ unsubscribedAt[l] > c

\* C4: a callback registered with listenOnce is invoked at most once.
C4_ListenOnceAtMostOnce ==
    \A l \in 1..Len(subs) :
        subs[l].once =>
            Cardinality({i \in CallIds : calls[i].listener = l}) <= 1

\* A listenOnce callback was invoked, and a cycle started re-entrantly after
\* that invocation has fanned out and returned.
C4_Witness ==
    \E i \in CallIds, c \in CycleIds :
        /\ subs[calls[i].listener].once
        /\ c > calls[i].cycle
        /\ cycles[c].depth > 0
        /\ cycles[c].should
        /\ cycles[c].returned

\* C5: the callback of listenOnce is invoked with the argument list of the
\* emission.
C5_OnceCallbackGetsEmittedArgs ==
    \A i \in CallIds :
        subs[calls[i].listener].once =>
            calls[i].args = cycles[calls[i].cycle].args

\* The promise of cycle c's i-th DispatchRecord, as _handleDispatchPromises
\* took it.
RecPromise(c, i) == promises[cycles[c].recs[i].promise]
AllFulfilled(c) ==
    \A i \in 1..Len(cycles[c].recs) : RecPromise(c, i).state = "fulfilled"

\* C6: a cycle whose fan-out appended no DispatchRecord never triggers the
\* completed or the failed child publisher, and no reaction is queued for it.
C6_NoRecordNoChild ==
    \A c \in CycleIds :
        cycles[c].produced = 0 => LogOf(c) = <<>> /\ ~JobPending(c)

\* A cycle has invoked a listener and returned without a record, a promise
\* returned in it (and dropped) has settled, and nothing is left to run.
C6_Witness ==
    /\ stack = <<>>
    /\ jobs = <<>>
    /\ \E c \in CycleIds :
        /\ cycles[c].should
        /\ cycles[c].returned
        /\ cycles[c].produced = 0
        /\ \E i \in CallIds : calls[i].cycle = c
        /\ \E p \in 1..Len(promises) : promises[p].cycle = c /\ Settled(p)

\* C7: when the only tracked promise of a cycle is fulfilled with V, the
\* completed child is triggered once with V itself, not wrapped, and the
\* failed child is not triggered.
C7_SingleFulfilled ==
    \A c \in CycleIds :
        (Len(cycles[c].recs) = 1 /\ RecPromise(c, 1).state = "fulfilled") =>
            IF JobPending(c)
            THEN LogOf(c) = <<>>
            ELSE LogOf(c) = << [child |-> "completed", cycle |-> c,
                                payload |-> Plain(RecPromise(c, 1).val)] >>

\* The only tracked promise of a cycle was fulfilled and its reaction ran.
C7_Witness ==
    \E c \in CycleIds :
        /\ Len(cycles[c].recs) = 1
        /\ RecPromise(c, 1).state = "fulfilled"
        /\ LogOf(c) # <<>>

\* C8: when the only tracked promise of a cycle is rejected with E, the
\* failed child is triggered once with E, the completed child is not
\* triggered, and triggerSync has returned normally.
C8_SingleRejected ==
    \A c \in CycleIds :
        (Len(cycles[c].recs) = 1 /\ RecPromise(c, 1).state = "rejected") =>
            /\ cycles[c].returned
            /\ IF JobPending(c)
               THEN LogOf(c) = <<>>
               ELSE LogOf(c) = << [child |-> "failed", cycle |-> c,
                                   payload |-> Plain(RecPromise(c, 1).val)] >>

\* The only tracked promise of a cycle was rejected and its reaction ran.
C8_Witness ==
    \E c \in CycleIds :
        /\ Len(cycles[c].recs) = 1
        /\ RecPromise(c, 1).state = "rejected"
        /\ LogOf(c) # <<>>

\* The array completed is expected to receive for cycle c: one entry per
\* record, each pairing the listener that returned the promise with the
\* value that promise was fulfilled with.
ExpectedEntries(c) ==
    [i \in 1..Len(cycles[c].recs) |->
        [listener |-> RecPromise(c, i).listener, value |-> RecPromise(c, i).val]]

\* C9: in a cycle with two or more tracked promises the completed child is
\* triggered at most once, only when all of them are fulfilled, and then
\* with one {listener, value} entry per record, in fan-out order, each
\* listener with its own value; once all are fulfilled and their reactions
\* have run it has been triggered, whatever the order of settlement.
C9_AllFulfilled ==
    \A c \in CycleIds :
        Len(cycles[c].recs) >= 2 =>
            /\ Len(LogOf(c)) <= 1
            /\ \A k \in 1..Len(LogOf(c)) :
                  LogOf(c)[k].child = "completed" =>
                      /\ AllFulfilled(c)
                      /\ LogOf(c)[k].payload = Wrapped(ExpectedEntries(c))
                      /\ \A i \in 1..Len(cycles[c].recs) - 1 :
                            RecPromise(c, i).listener < RecPromise(c, i + 1).listener
            /\ (AllFulfilled(c) /\ ~JobPending(c)) =>
                  /\ Len(LogOf(c)) = 1
                  /\ LogOf(c)[1].child = "completed"

\* completed was triggered for a cycle with two tracked promises of which
\* the second was already fulfilled when returned and the first settled
\* later: they settled against the fan-out order.
C9_Witness ==
    \E c \in CycleIds :
        /\ Len(cycles[c].recs) >= 2
        /\ RecPromise(c, 1).born = "pending"
        /\ RecPromise(c, 2).born = "fulfilled"
        /\ LogOf(c) # <<>>
        /\ LogOf(c)[1].child = "completed"

\* Promise p's value or error reached a child publisher.
Forwarded(p) ==
    \E k \in 1..Len(childLog) :
        \/ ~childLog[k].payload.wrapped /\ childLog[k].payload.value = ValueOf(p)
        \/ \E i \in 1..Len(childLog[k].payload.entries) :
              childLog[k].payload.entries[i].value = ValueOf(p)

IsTracked(p) ==
    \/ \E i \in 1..Len(dispatchPromises) : dispatchPromises[i].promise = p
    \/ \E c \in CycleIds, i \in 1..Len(promises) :
          i <= Len(cycles[c].recs) /\ cycles[c].recs[i].promise = p

\* C10: a promise returned while canHandlePromise() is false is never in
\* the DispatchRecord list and never reaches completed or failed; there is
\* exactly one warning per such promise; and the fan-out goes on: every
\* handler of a finished fan-out was invoked unless it was unsubscribed.
C10_UnhandledPromise ==
    /\ warnings = Cardinality({p \in 1..Len(promises) : ~promises[p].can})
    /\ \A p \in 1..Len(promises) :
          ~promises[p].can => ~IsTracked(p) /\ ~Forwarded(p)
    /\ \A c \in CycleIds, l \in 1..Len(subs) :
          (cycles[c].should /\ cycles[c].returned /\ InSnapshot(c, l)) =>
              InvokedIn(c, l) \/ unsubscribedAt[l] # 0

\* A promise returned while canHandlePromise() was false has settled, a
\* later listener of the same fan-out was invoked, and nothing is left to run.
C10_Witness ==
    /\ stack = <<>>
    /\ jobs = <<>>
    /\ \E p \in 1..Len(promises) :
        /\ ~promises[p].can
        /\ Settled(p)
        /\ \E i \in CallIds :
              /\ calls[i].cycle = promises[p].cycle
              /\ calls[i].listener > promises[p].listener

\* The promises the fan-out of cycle c appended to the DispatchRecord list,
\* and the promises its resolution step took from the list.
AppendedIn(c) == {p \in 1..Len(promises) : promises[p].cycle = c /\ promises[p].can}
TakenBy(c) == {cycles[c].recs[i].promise : i \in 1..Len(cycles[c].recs)}

\* C11: when a listener calls triggerSync re-entrantly, the records of the
\* outer cycle are not corrupted: every promise appended during a fan-out,
\* before or after a nested call, is taken by the resolution step of its
\* own cycle, and by no other cycle's.
C11_OuterRecordsResolved ==
    \A c \in CycleIds :
        /\ TakenBy(c) \subseteq AppendedIn(c)
        /\ cycles[c].returned => AppendedIn(c) \subseteq TakenBy(c)

\* The cycles that were started by a function trigger queued, in the
\* order they began.
TickCycles == SelectSeq(cycles, LAMBDA cy : cy.via = "trigger")

\* Every call of trigger so far stands for exactly one cycle, begun or
\* still queued, that has the call's own arguments; the cycles begun are
\* those of the earliest calls, in call order, the queued ones follow in
\* call order; and none of them began inside another call.
OneCyclePerTrigger ==
    /\ Len(TickCycles) + Len(ticks) = Len(triggered)
    /\ \A k \in 1..Len(TickCycles) :
          /\ TickCycles[k].orig = triggered[k]
          /\ TickCycles[k].depth = 0
    /\ \A k \in 1..Len(ticks) : ticks[k] = triggered[Len(TickCycles) + k]

\* A step that is a call of trigger.
TriggerStep == Len(triggered') = Len(triggered) + 1

\* C12: trigger never runs a cycle synchronously: the call invokes no
\* listener and begins no cycle.  Each call of trigger stands for exactly
\* one later cycle with the call's own arguments, and these cycles begin
\* in the order of the calls.
C12_TriggerDeferred ==
    [][/\ TriggerStep => calls' = calls /\ cycles' = cycles /\ stack' = stack
       /\ OneCyclePerTrigger']_vars

\* trigger was called twice with different arguments, both cycles have
\* begun, and a listener has been invoked in the cycle of the second call.
C12_Witness ==
    /\ Len(triggered) = 2
    /\ triggered[1] # triggered[2]
    /\ Len(TickCycles) = 2
    /\ \E c \in CycleIds :
          /\ cycles[c].via = "trigger"
          /\ cycles[c].orig = triggered[2]
          /\ \E i \in CallIds : calls[i].cycle = c

\* C13: no DispatchRecord survives its cycle: whenever no triggerSync call
\* is executing, the DispatchRecord list is empty.
C13_NoRecordOutsideCycle ==
    stack = <<>> => dispatchPromises = <<>>

\* No triggerSync call is executing, a cycle begun by trigger has collected
\* records and returned, and a promise of one of its records has settled
\* since.
C13_Witness ==
    /\ stack = <<>>
    /\ \E c \in CycleIds :
          /\ cycles[c].via = "trigger"
          /\ cycles[c].returned
          /\ \E i \in 1..Len(cycles[c].recs) :
                /\ RecPromise(c, i).born = "pending"
                /\ RecPromise(c, i).state # "pending"

\* A step that is a call of an unsubscribe function by user code, and the
\* number of such calls so far: the method calls that were not listen,
\* listenOnce, triggerSync or trigger.
UnsubscribeStep ==
    /\ ops' = ops + 1
    /\ Len(subs') = Len(subs)
    /\ Len(cycles') = Len(cycles)
    /\ triggered' = triggered
UnsubscribeCalls ==
    ops - Len(subs) - Len(triggered)
        - Cardinality({c \in CycleIds : cycles[c].via = "triggerSync"})

\* Calling listener l's unsubscribe function twice gives the state that
\* calling it once gives.
TwiceIsOnce(l) ==
    LET one == UnsubscribeEffect(subs, handlers, l)
    IN  UnsubscribeEffect(one.subs, one.handlers, l) = one

\* C14: unsubscribe is idempotent and touches no other registration: a call
\* of listener l's unsubscribe function marks l aborted and takes l's
\* handler away, leaving every other subscription and handler, and
\* everything else, as it was; when l was unsubscribed before, the call
\* changes nothing at all.
C14_UnsubscribeIdempotent ==
    [][/\ UnsubscribeStep =>
            /\ \E l \in 1..Len(subs) :
                  /\ subs' = [subs EXCEPT ![l].aborted = TRUE]
                  /\ handlers' = SelectSeq(handlers, LAMBDA h : h # l)
                  /\ subs[l].aborted => subs' = subs /\ handlers' = handlers
            /\ UNCHANGED <<dispatchPromises, cycles, stack, promises, jobs,
                           childLog, calls, warnings, ticks>>
       /\ \A l \in 1..Len(subs) : TwiceIsOnce(l)]_vars

\* The unsubscribe function of one listen() listener was called twice,
\* nothing else was ever unsubscribed, and another listener is still
\* registered and was invoked in a cycle begun after the first of the calls.
C14_Witness ==
    /\ UnsubscribeCalls >= 2
    /\ \E l \in 1..Len(subs) :
          /\ unsubscribedAt[l] # 0
          /\ ~subs[l].once
          /\ \A k \in 1..Len(subs) : k # l => unsubscribedAt[k] = 0
          /\ \E k \in 1..Len(subs), i \in CallIds :
                /\ k # l
                /\ \E h \in 1..Len(handlers) : handlers[h] = k
                /\ calls[i].listener = k
                /\ calls[i].cycle >= unsubscribedAt[l]

\* The listeners invoked in cycle c, in the order of their invocation.
CallsOf(c) == SelectSeq(calls, LAMBDA e : e.cycle = c)

\* The emitter holds the handlers of exactly the subscriptions that were
\* not unsubscribed, in the order they were registered.
RECURSIVE LiveListeners(_)
LiveListeners(n) ==
    IF n = 0 THEN <<>>
    ELSE LiveListeners(n - 1) \o (IF subs[n].aborted THEN <<>> ELSE <<n>>)

\* C15: a cycle that passed shouldEmit fans out over the listeners that
\* were registered and not unsubscribed when it began: by the time
\* triggerSync has returned each of them that was never unsubscribed has
\* been invoked, no listener was invoked twice, the invocations were made
\* in registration order, and none is still running.
C15_FanOutInOrder ==
    /\ handlers = LiveListeners(Len(subs))
    /\ \A c \in CycleIds :
          (cycles[c].should /\ cycles[c].returned) =>
              /\ \A f \in 1..Len(stack) : stack[f].cycle # c
              /\ \A i \in 1..Len(CallsOf(c)) - 1 :
                    CallsOf(c)[i].listener < CallsOf(c)[i + 1].listener
              /\ \A i \in 1..Len(CallsOf(c)) : InSnapshot(c, CallsOf(c)[i].listener)
              /\ \A k \in 1..Len(cycles[c].snapshot) :
                    unsubscribedAt[cycles[c].snapshot[k]] = 0 =>
                        InvokedIn(c, cycles[c].snapshot[k])

\* A cycle has returned after invoking each of its three listeners, none
\* of which was ever unsubscribed, and a re-entrant cycle started by one of
\* them has done the same.
C15_Witness ==
    \E c \in CycleIds, d \in CycleIds :
        /\ cycles[c].should /\ cycles[c].returned
        /\ cycles[d].should /\ cycles[d].returned
        /\ cycles[c].depth = 0
        /\ cycles[d].depth > 0
        /\ Len(cycles[c].snapshot) = 3
        /\ Len(CallsOf(c)) = 3
        /\ Len(CallsOf(d)) = 3
        /\ \A l \in 1..Len(subs) : unsubscribedAt[l] = 0

\* The argument list cycle c is to go on with, given what it was called
\* with and what preEmit returned.
ExpectedArgs(c) ==
    LET cy == cycles[c]
    IN  CASE cy.pre.kind = "undefined" -> cy.orig
          [] cy.pre.kind \in {"arguments", "array"} -> cy.pre.seq
          [] OTHER -> <<cy.pre.value>>

\* C16: shouldEmit and every listen() listener of a cycle get the same
\* argument list: the arguments of the triggerSync call when preEmit
\* returned undefined, the returned sequence when it returned an arguments
\* object or an array, and the one-element list of the returned value
\* otherwise, a falsy value such as null included.
C16_ArgumentsAfterPreEmit ==
    \A c \in CycleIds :
        /\ cycles[c].args = ExpectedArgs(c)
        /\ \A i \in CallIds :
              (calls[i].cycle = c /\ ~subs[calls[i].listener].once) =>
                  calls[i].args = ExpectedArgs(c)

\* triggerSync("a") ran with a preEmit that returned null, and a listener
\* has been invoked in that cycle.
C16_Witness ==
    \E c \in CycleIds :
        /\ cycles[c].orig = <<"a">>
        /\ cycles[c].pre.kind = "value"
        /\ cycles[c].pre.value = "null"
        /\ \E i \in CallIds : calls[i].cycle = c /\ calls[i].args = <<"null">>

\* The records of cycle c whose promise was rejected, and the one of them
\* that was rejected first.
RejectedIn(c) ==
    {i \in 1..Len(cycles[c].recs) : RecPromise(c, i).state = "rejected"}
FirstRejected(c) ==
    CHOOSE i \in RejectedIn(c) :
        \A j \in RejectedIn(c) : RecPromise(c, i).at <= RecPromise(c, j).at

FromOwnRecords(e) ==
    LET c == e.cycle
    IN  IF e.payload.wrapped
        THEN e.payload.entries = ExpectedEntries(c)
        ELSE \E i \in 1..Len(cycles[c].recs) :
                /\ RecPromise(c, i).state # "pending"
                /\ e.payload.value = RecPromise(c, i).val

JobsOf(c) == SelectSeq(jobs, LAMBDA j : j.cycle = c)

\* A step in which promise p settles, and a step in which a reaction
\* queued for cycle c runs.
SettleStep(p) == promises[p].state = "pending" /\ promises'[p].state # "pending"
ReactionStep(c) ==
    /\ stack = <<>> /\ jobs # <<>> /\ Head(jobs).cycle = c
    /\ promises' = promises /\ ops' = ops /\ Len(cycles') = Len(cycles)

\* Cycle d is left alone by a step: its records, its outcome, the reactions
\* queued for it and the child calls made for it.
Untouched(d) ==
    /\ cycles'[d] = cycles[d]
    /\ JobsOf(d)' = JobsOf(d)
    /\ LogOf(d)' = LogOf(d)

\* C18: cycles are isolated from each other's settlements: the settling of
\* a promise of one cycle, and the reactions to it, change no other cycle's
\* records, reactions or outcome and not the DispatchRecord list; and every
\* child call made for a cycle carries values or the error of that cycle's
\* own records only.
C18_CyclesIsolated ==
    [][/\ \A p \in 1..Len(promises) :
             SettleStep(p) =>
                 /\ dispatchPromises' = dispatchPromises
                 /\ \A d \in CycleIds : d # promises[p].cycle => Untouched(d)
       /\ \A c \in CycleIds :
             ReactionStep(c) =>
                 /\ dispatchPromises' = dispatchPromises
                 /\ \A d \in CycleIds : d # c => Untouched(d)
       /\ \A c \in CycleIds :
             /\ TakenBy(c)' \subseteq AppendedIn(c)'
             /\ \A k \in 1..Len(LogOf(c)') : FromOwnRecords(LogOf(c)[k])'
      ]_vars

\* Two cycles with one pending promise each have both led to a child call,
\* the promise of the earlier cycle settling after that of the later one.
C18_Witness ==
    \E c \in CycleIds, d \in CycleIds :
        /\ c < d
        /\ Len(cycles[c].recs) = 1
        /\ Len(cycles[d].recs) = 1
        /\ RecPromise(c, 1).born = "pending"
        /\ RecPromise(d, 1).born = "pending"
        /\ RecPromise(d, 1).at # 0
        /\ RecPromise(c, 1).at > RecPromise(d, 1).at
        /\ LogOf(c) # <<>>
        /\ LogOf(d) # <<>>

\* Every promise the resolution step of cycle c took has settled, and a
\* child publisher has been called for cycle c.
AllSettled(c) ==
    /\ c \in CycleIds
    /\ cycles[c].recs # <<>>
    /\ \A i \in 1..Len(cycles[c].recs) : RecPromise(c, i).state # "pending"
HasOutcome(c) == c \in CycleIds /\ LogOf(c) # <<>>

\* C19: unsubscribing cancels no pending resolution: whatever listeners
\* are unsubscribed meanwhile, once every tracked promise of a cycle has
\* settled a child publisher is eventually triggered for the cycle.
C19_ResolutionSurvivesUnsubscribe ==
    \A c \in 1..MaxOps : AllSettled(c) ~> HasOutcome(c)

\* A child publisher was triggered for a cycle one of whose tracked
\* promises was pending when returned and settled only after the listener
\* that returned it had been unsubscribed.
C19_Witness ==
    \E c \in CycleIds :
        /\ LogOf(c) # <<>>
        /\ \E i \in 1..Len(cycles[c].recs) :
              /\ RecPromise(c, i).born = "pending"
              /\ RecPromise(c, i).listener \in RecPromise(c, i).gone
              /\ unsubscribedAt[RecPromise(c, i).listener] > c

\* C20: a cycle causes at most one call of a child publisher, completed or
\* failed, however many promises it tracked and however they settle, and
\* only after its triggerSync call has finished its fan-out and returned.
C20_AtMostOneOutcome ==
    \A c \in CycleIds :
        /\ Len(LogOf(c)) <= 1
        /\ LogOf(c) # <<>> => cycles[c].should /\ cycles[c].returned

\* A cycle tracked two promises, both were rejected, every reaction has
\* run, and a child publisher was called once for the cycle.
C20_Witness ==
    /\ jobs = <<>>
    /\ \E c \in CycleIds :
          /\ Len(cycles[c].recs) = 2
          /\ RecPromise(c, 1).state = "rejected"
          /\ RecPromise(c, 2).state = "rejected"
          /\ Len(LogOf(c)) = 1
====
